---- MODULE Spec2Model ----
(***************************************************************************)
(* A model of icfs (src/main.rs): an in-memory tree of files and           *)
(* directories served through the FUSE callback contract, with the table   *)
(* that maps inode numbers to tree paths and back.                         *)
(*                                                                         *)
(* The state is the ICFS struct.  One action per Filesystem callback; an   *)
(* action is the whole handler, from its first get_entry to its reply.     *)
(* Callbacks are dispatched one at a time (fuser's session loop), so every *)
(* handler is one atomic step.                                             *)
(***************************************************************************)
EXTENDS Naturals, Integers, Sequences, FiniteSets, TLC

\* ------------------------------------------------------------------ bounds
\* The handlers below are unbounded, as the code is.  A specification draws
\* the callbacks' arguments from the finite sets of a universe and keeps only
\* the steps that stay inside it.
\*
\* Universe T, for the tree and the inode table: two names, directories two
\* levels deep, one-byte contents.
\* Longest path (number of components) in the tree.
MaxDepth == 2
\* Nodes mkdir/create may insert over one run.
MaxNodes == 2
\* Inode numbers in play: 1..MaxIno.
MaxIno == 3
\* Longest file content.
MaxLen == 1

\* Universe RW, for file contents: one file in the root, every offset, size
\* and byte sequence up to RWMaxLen.
RWMaxDepth == 1
RWMaxNodes == 1
RWMaxIno == 2
RWMaxLen == 3
\* Largest byte value written.
RWMaxByte == 1

\* Universe W, for what a write leaves alone: two names in the root, two
\* inode numbers, contents up to WMaxLen.
WMaxDepth == 1
WMaxNodes == 2
WMaxIno == 2
WMaxLen == 2

\* Universe F, for released inode numbers: two names in the root, one more
\* insertion.
FMaxDepth == 1
FMaxNodes == 3
FMaxIno == 3
FMaxLen == 1

\* Universe S, for callbacks recorded with their arguments: the tree of
\* universe T with one more insertion, two inode numbers.
SMaxDepth == 2
SMaxNodes == 3
SMaxIno == 2
SMaxLen == 1

VARIABLES
    files,           \* ICFS.files.root: the root FileStorageEntry
    inode_to_file,   \* ICFS.inode_to_file: HashMap<u64, FileStoragePath>
    file_to_inode,   \* ICFS.file_to_inode: HashMap<FileStoragePath, u64>
    unused_inodes,   \* ICFS.unused_inodes: HashSet<u64>
    panicked,        \* TRUE once a handler has panicked (the process is gone)
    last,            \* the last callback a specification records: its name,
                     \* arguments and reply
    nextId,          \* history: identity given to the next inserted node
    watch            \* history: the one observation a specification follows

vars == <<files, inode_to_file, file_to_inode, unused_inodes, panicked, last,
          nextId, watch>>

\* ------------------------------------------------------- FileStorageEntry
\* enum FileStorageEntry { File(Vec<u8>), Directory(HashMap<OsString, Entry>) }
\* id is the identity the node got when it was inserted (history only: no
\* handler reads it).
File(data, id) == [kind |-> "File", data |-> data, children |-> <<>>, id |-> id]
Directory(children, id) ==
    [kind |-> "Directory", data |-> <<>>, children |-> children, id |-> id]
\* Option::None
None == [kind |-> "None"]

\* HashMap::insert: the key is bound to the value, replacing an old binding.
Insert(map, key, value) ==
    [k \in DOMAIN map \cup {key} |-> IF k = key THEN value ELSE map[k]]
\* HashMap::remove.
Remove(map, key) == [k \in DOMAIN map \ {key} |-> map[k]]
\* HashMap::new()
EmptyMap == [k \in {} |-> 0]

\* ------------------------------------------------------- FileStoragePath
root == <<>>
with_pushed(path, next) == Append(path, next)
with_popped(path) == IF path = <<>> THEN path ELSE SubSeq(path, 1, Len(path) - 1)

\* ------------------------------------------------------------ FileStorage
\* FileStorage::lookup / lookup_mut: walk the parts from the entry; None
\* when a component is absent or a File is met before the parts run out.
RECURSIVE FileStorage_lookup(_, _)
FileStorage_lookup(entry, parts) ==
    IF parts = <<>> THEN entry
    ELSE IF entry.kind = "Directory"
         THEN IF Head(parts) \in DOMAIN entry.children
              THEN FileStorage_lookup(entry.children[Head(parts)], Tail(parts))
              ELSE None
         ELSE None

\* The tree after the entry that lookup_mut(parts) returns is overwritten by
\* new (the handlers mutate through the &mut reference).  Only used where
\* FileStorage_lookup(entry, parts) is not None.
RECURSIVE store(_, _, _)
store(entry, parts, new) ==
    IF parts = <<>> THEN new
    ELSE [entry EXCEPT !.children =
             Insert(entry.children, Head(parts),
                    store(entry.children[Head(parts)], Tail(parts), new))]

\* ------------------------------------------------------------ inode table
\* The three table fields as one value, so that the helpers can return the
\* table they leave behind.
Table == [inode_to_file |-> inode_to_file, file_to_inode |-> file_to_inode,
          unused_inodes |-> unused_inodes]

\* A create_inode that leaves the number it took in unused_inodes; C1 tells it
\* from the code's.
create_inode_keeps_reserved(t, path) ==
    IF path \in DOMAIN t.file_to_inode
    THEN {[t |-> t, inode |-> t.file_to_inode[path]]}
    ELSE LET picks == IF t.unused_inodes # {}
                      THEN t.unused_inodes
                      ELSE {Cardinality(DOMAIN t.inode_to_file) + 1}
         IN {[t |-> [inode_to_file |-> Insert(t.inode_to_file, inode, path),
                     file_to_inode |-> Insert(t.file_to_inode, path, inode),
                     unused_inodes |-> t.unused_inodes],
              inode |-> inode] : inode \in picks}

\* A create_inode that skips the file_to_inode.get(&path) test and binds a
\* number on every call; C6 tells it from the code's.
create_inode_rebinds(t, path) ==
    LET picks == IF t.unused_inodes # {}
                 THEN t.unused_inodes
                 ELSE {Cardinality(DOMAIN t.inode_to_file) + 1}
    IN {[t |-> [inode_to_file |-> Insert(t.inode_to_file, inode, path),
                file_to_inode |-> Insert(t.file_to_inode, path, inode),
                unused_inodes |-> t.unused_inodes \ {inode}],
         inode |-> inode] : inode \in picks}

\* A create_inode that mints a number for every new Path and never takes one
\* from unused_inodes; C17 tells it from the code's.
create_inode_mints(t, path) ==
    IF path \in DOMAIN t.file_to_inode
    THEN {[t |-> t, inode |-> t.file_to_inode[path]]}
    ELSE LET inode == Cardinality(DOMAIN t.inode_to_file)
                      + Cardinality(t.unused_inodes) + 1
         IN {[t |-> [inode_to_file |-> Insert(t.inode_to_file, inode, path),
                     file_to_inode |-> Insert(t.file_to_inode, path, inode),
                     unused_inodes |-> t.unused_inodes],
              inode |-> inode]}

\* ICFS::create_inode: the outcomes [t: table after, inode: returned number].
\* unused_inodes.iter().next() is whichever element the HashSet yields first.
create_inode(t, path) ==
    IF path \in DOMAIN t.file_to_inode
    THEN {[t |-> t, inode |-> t.file_to_inode[path]]}
    ELSE LET picks == IF t.unused_inodes # {}
                      THEN t.unused_inodes
                      ELSE {Cardinality(DOMAIN t.inode_to_file) + 1}
         IN {[t |-> [inode_to_file |-> Insert(t.inode_to_file, inode, path),
                     file_to_inode |-> Insert(t.file_to_inode, path, inode),
                     unused_inodes |-> t.unused_inodes \ {inode}],
              inode |-> inode] : inode \in picks}

\* A remove_inode without file_to_inode.remove(&path); C7 tells it from the
\* code's.
remove_inode_keeps_path(t, inode) ==
    IF inode \in DOMAIN t.inode_to_file
    THEN [inode_to_file |-> Remove(t.inode_to_file, inode),
          file_to_inode |-> t.file_to_inode,
          unused_inodes |-> t.unused_inodes \cup {inode}]
    ELSE t

\* ICFS::remove_inode
remove_inode(t, inode) ==
    IF inode \in DOMAIN t.inode_to_file
    THEN [inode_to_file |-> Remove(t.inode_to_file, inode),
          file_to_inode |-> Remove(t.file_to_inode, t.inode_to_file[inode]),
          unused_inodes |-> t.unused_inodes \cup {inode}]
    ELSE t

\* ICFS::get_entry / get_entry_mut on tree f and table t.
get_entry(f, t, inode) ==
    IF inode \in DOMAIN t.inode_to_file
    THEN FileStorage_lookup(f, t.inode_to_file[inode])
    ELSE None

\* Attributes whose size, for a Directory, is the number of its children;
\* C14 tells them from the code's.
get_inode_attrs_counts(f, t, inode) ==
    LET entry == get_entry(f, t, inode)
    IN IF entry = None THEN None
       ELSE [kind |-> IF entry.kind = "File" THEN "RegularFile" ELSE "Directory",
             ino |-> inode,
             size |-> IF entry.kind = "File" THEN Len(entry.data)
                      ELSE Cardinality(DOMAIN entry.children)]

\* ICFS::get_inode_attrs: the fields of FileAttr that vary; None where the
\* unwrap of get_entry panics.
get_inode_attrs(f, t, inode) ==
    LET entry == get_entry(f, t, inode)
    IN IF entry = None THEN None
       ELSE [kind |-> IF entry.kind = "File" THEN "RegularFile" ELSE "Directory",
             ino |-> inode,
             size |-> IF entry.kind = "File" THEN Len(entry.data) ELSE 0]

\* ---------------------------------------------------------------- history
\* Every node of the tree under entry, as the set of their identities.
RECURSIVE Ids(_)
Ids(entry) ==
    {entry.id} \cup
    (IF entry.kind = "Directory"
     THEN UNION {Ids(entry.children[n]) : n \in DOMAIN entry.children}
     ELSE {})

\* Largest element of a non-empty set of numbers.
Max(S) == CHOOSE x \in S : \A y \in S : y <= x

\* Number of levels below entry.
RECURSIVE Height(_)
Height(entry) ==
    IF entry.kind = "Directory" /\ DOMAIN entry.children # {}
    THEN 1 + Max({Height(entry.children[n]) : n \in DOMAIN entry.children})
    ELSE 0

\* Length of the longest file content under entry.
RECURSIVE Longest(_)
Longest(entry) ==
    IF entry.kind = "File" THEN Len(entry.data)
    ELSE Max({0} \cup {Longest(entry.children[n]) : n \in DOMAIN entry.children})

\* ------------------------------------------------------- Filesystem for ICFS
\* A handler is a function of the state it finds (tree f, table t) and its
\* arguments to the outcomes it may leave: the tree, the table, the one reply
\* it sent with its payload, and how many nodes it inserted.  reply "panic":
\* the handler panicked before replying.  The payload is a record: the
\* attributes of reply.entry / attr / created, [data] of reply.data, [size]
\* of reply.written, [entries] of readdir's reply.ok, None where the reply
\* carries nothing.
Out(f, t, reply, value, made) ==
    [files |-> f, table |-> t, reply |-> reply, value |-> value, made |-> made]

\* reply.entry / reply.created with get_inode_attrs(inode), whose unwrap may
\* panic.
ReplyAttrs(f, t, inode, reply, made) ==
    LET attrs == get_inode_attrs(f, t, inode)
    IN IF attrs = None THEN Out(f, t, "panic", None, made)
       ELSE Out(f, t, reply, attrs, made)

\* A lookup that binds the child's Path before it looks at the parent's
\* type; C13 tells it from the code's.
lookup_binds_first(f, t, parent, name) ==
    LET entry == get_entry(f, t, parent)
    IN IF entry = None THEN {Out(f, t, "ENOENT", None, 0)}
       ELSE UNION {IF entry.kind = "File" THEN {Out(f, o.t, "ENOTDIR", None, 0)}
                   ELSE IF name \notin DOMAIN entry.children
                   THEN {Out(f, o.t, "ENOENT", None, 0)}
                   ELSE {ReplyAttrs(f, o.t, o.inode, "entry", 0)} :
                   o \in create_inode(t, with_pushed(t.inode_to_file[parent], name))}

\* fn lookup(parent, name, reply)
lookup(f, t, parent, name) ==
    LET entry == get_entry(f, t, parent)
    IN IF entry = None THEN {Out(f, t, "ENOENT", None, 0)}
       ELSE IF entry.kind = "File" THEN {Out(f, t, "ENOTDIR", None, 0)}
       ELSE IF name \notin DOMAIN entry.children THEN {Out(f, t, "ENOENT", None, 0)}
       ELSE {ReplyAttrs(f, o.t, o.inode, "entry", 0) :
                o \in create_inode(t, with_pushed(t.inode_to_file[parent], name))}

\* fn forget(ino, _nlookup): a notification, no reply.
forget(f, t, ino) == {Out(f, remove_inode(t, ino), "none", None, 0)}

\* fn getattr(ino, reply)
getattr(f, t, ino) ==
    LET entry == get_entry(f, t, ino)
    IN IF entry = None THEN {Out(f, t, "ENOENT", None, 0)}
       ELSE {ReplyAttrs(f, t, ino, "attr", 0)}

\* A mkdir that takes the attributes for its reply before it inserts the
\* Directory; C16 tells it from the code's.
mkdir_attrs_first(f, t, id, parent, name) ==
    LET entry == get_entry(f, t, parent)
    IN IF entry = None THEN {Out(f, t, "ENOENT", None, 0)}
       ELSE IF entry.kind = "File" THEN {Out(f, t, "ENOTDIR", None, 0)}
       ELSE IF name \in DOMAIN entry.children THEN {Out(f, t, "EEXIST", None, 0)}
       ELSE LET path == t.inode_to_file[parent]
                directory == Insert(entry.children, name, Directory(EmptyMap, id))
                f2 == store(f, path, [entry EXCEPT !.children = directory])
            IN {[ReplyAttrs(f, o.t, o.inode, "entry", 1) EXCEPT !.files = f2] :
                   o \in create_inode(t, with_pushed(path, name))}

\* fn mkdir(parent, name, _mode, _umask, reply); id: the identity of the
\* Directory it inserts.
mkdir(f, t, id, parent, name) ==
    LET entry == get_entry(f, t, parent)
    IN IF entry = None THEN {Out(f, t, "ENOENT", None, 0)}
       ELSE IF entry.kind = "File" THEN {Out(f, t, "ENOTDIR", None, 0)}
       ELSE IF name \in DOMAIN entry.children THEN {Out(f, t, "EEXIST", None, 0)}
       ELSE LET path == t.inode_to_file[parent]
                directory == Insert(entry.children, name, Directory(EmptyMap, id))
                f2 == store(f, path, [entry EXCEPT !.children = directory])
            IN {ReplyAttrs(f2, o.t, o.inode, "entry", 1) :
                   o \in create_inode(t, with_pushed(path, name))}

\* An unlink that replies ENOENT for a name the directory does not hold;
\* C11 tells it from the code's.
unlink_missing_name(f, t, parent, name) ==
    LET entry == get_entry(f, t, parent)
    IN IF entry = None THEN {Out(f, t, "ENOENT", None, 0)}
       ELSE IF entry.kind = "File" THEN {Out(f, t, "ENOTDIR", None, 0)}
       ELSE IF name \notin DOMAIN entry.children
            THEN {Out(f, t, "ENOENT", None, 0)}
       ELSE LET directory == Remove(entry.children, name)
                f2 == store(f, t.inode_to_file[parent],
                            [entry EXCEPT !.children = directory])
            IN {Out(f2, t, "ok", None, 0)}

\* fn unlink(parent, name, reply)
unlink(f, t, parent, name) ==
    LET entry == get_entry(f, t, parent)
    IN IF entry = None THEN {Out(f, t, "ENOENT", None, 0)}
       ELSE IF entry.kind = "File" THEN {Out(f, t, "ENOTDIR", None, 0)}
       ELSE LET directory == Remove(entry.children, name)
                f2 == store(f, t.inode_to_file[parent],
                            [entry EXCEPT !.children = directory])
            IN {Out(f2, t, "ok", None, 0)}

\* fn rmdir(parent, name, reply): the body of unlink, line for line.
rmdir(f, t, parent, name) ==
    LET entry == get_entry(f, t, parent)
    IN IF entry = None THEN {Out(f, t, "ENOENT", None, 0)}
       ELSE IF entry.kind = "File" THEN {Out(f, t, "ENOTDIR", None, 0)}
       ELSE LET directory == Remove(entry.children, name)
                f2 == store(f, t.inode_to_file[parent],
                            [entry EXCEPT !.children = directory])
            IN {Out(f2, t, "ok", None, 0)}

\* A slice from the offset to the end of the buffer, whatever the size; C9
\* tells it from the code's.
read_slice_to_end(buffer, offset, size) ==
    SubSeq(buffer, (IF offset < Len(buffer) THEN offset ELSE Len(buffer)) + 1,
           Len(buffer))

\* &buffer[a..b] of read, a = offset.min(len), b = (offset + size).min(len).
\* Vec indices are 0-based, Seq's 1-based.
read_slice(buffer, offset, size) ==
    LET a == IF offset < Len(buffer) THEN offset ELSE Len(buffer)
        b == IF offset + size < Len(buffer) THEN offset + size ELSE Len(buffer)
    IN SubSeq(buffer, a + 1, b)

\* fn read(ino, _fh, offset, size, ..., reply)
read(f, t, ino, offset, size) ==
    LET entry == get_entry(f, t, ino)
    IN IF entry = None THEN {Out(f, t, "ENOENT", None, 0)}
       ELSE IF entry.kind = "Directory" THEN {Out(f, t, "EISDIR", None, 0)}
       ELSE {Out(f, t, "data", [data |-> read_slice(entry.data, offset, size)], 0)}

\* A loop that pushes every byte, wherever its position is; C8 tells it from
\* the code's.
write_loop_pushes(buffer, offset, data, i) ==
    [buffer |-> buffer \o SubSeq(data, i + 1, Len(data)), panic |-> FALSE]

\* A loop that fills the gap between the end of the buffer and the offset
\* with zero bytes instead of panicking; C20 tells it from the code's.
write_loop_pads(buffer, offset, data, i) ==
    [buffer |-> [k \in 1..(IF Len(buffer) < offset + Len(data)
                           THEN offset + Len(data) ELSE Len(buffer)) |->
                    IF k > offset /\ k <= offset + Len(data) THEN data[k - offset]
                    ELSE IF k <= Len(buffer) THEN buffer[k]
                    ELSE 0],
     panic |-> FALSE]

\* The for loop of write from index i on: [buffer: the Vec after, panic:
\* whether panic!("oob write") was reached].
RECURSIVE write_loop(_, _, _, _)
write_loop(buffer, offset, data, i) ==
    IF i >= Len(data) THEN [buffer |-> buffer, panic |-> FALSE]
    ELSE LET position == offset + i
             byte == data[i + 1]
         IN IF position = Len(buffer)
            THEN write_loop(Append(buffer, byte), offset, data, i + 1)
            ELSE IF position < Len(buffer)
            THEN write_loop([buffer EXCEPT ![position + 1] = byte],
                            offset, data, i + 1)
            ELSE [buffer |-> buffer, panic |-> TRUE]

\* A write that cuts the file off behind the bytes it wrote; C10 tells it
\* from the code's.
write_truncates(f, t, ino, offset, data) ==
    LET entry == get_entry(f, t, ino)
    IN IF entry = None THEN {Out(f, t, "ENOENT", None, 0)}
       ELSE IF entry.kind = "Directory" THEN {Out(f, t, "EISDIR", None, 0)}
       ELSE LET kept == IF offset < Len(entry.data) THEN offset ELSE Len(entry.data)
                w == write_loop(SubSeq(entry.data, 1, kept), offset, data, 0)
                f2 == store(f, t.inode_to_file[ino], [entry EXCEPT !.data = w.buffer])
            IN IF w.panic THEN {Out(f2, t, "panic", None, 0)}
               ELSE {Out(f2, t, "written", [size |-> Len(data)], 0)}

\* fn write(ino, _fh, offset, data, ..., reply)
write(f, t, ino, offset, data) ==
    LET entry == get_entry(f, t, ino)
    IN IF entry = None THEN {Out(f, t, "ENOENT", None, 0)}
       ELSE IF entry.kind = "Directory" THEN {Out(f, t, "EISDIR", None, 0)}
       ELSE LET w == write_loop(entry.data, offset, data, 0)
                f2 == store(f, t.inode_to_file[ino], [entry EXCEPT !.data = w.buffer])
            IN IF w.panic THEN {Out(f2, t, "panic", None, 0)}
               ELSE {Out(f2, t, "written", [size |-> Len(data)], 0)}

\* fn rename(parent, name, newparent, newname, _flags, reply)
rename(f, t, parent, name, newparent, newname) ==
    LET entry_old == get_entry(f, t, parent)
    IN IF entry_old = None THEN {Out(f, t, "ENOENT", None, 0)}
       ELSE IF entry_old.kind = "File" THEN {Out(f, t, "ENOTDIR", None, 0)}
       ELSE IF name \notin DOMAIN entry_old.children
            \* entry_old.remove(name) is None: nothing was removed
            THEN {Out(f, t, "ENOENT", None, 0)}
       ELSE LET file == entry_old.children[name]
                \* the tree once entry_old.remove(name) has run
                f1 == store(f, t.inode_to_file[parent],
                            [entry_old EXCEPT
                                !.children = Remove(entry_old.children, name)])
                entry_new == get_entry(f1, t, newparent)
            IN IF entry_new = None THEN {Out(f1, t, "ENOENT", None, 0)}
               ELSE IF entry_new.kind = "File" THEN {Out(f1, t, "ENOTDIR", None, 0)}
               ELSE IF newname \in DOMAIN entry_new.children
                    THEN {Out(f1, t, "EEXIST", None, 0)}
               ELSE LET directory == Insert(entry_new.children, newname, file)
                        f2 == store(f1, t.inode_to_file[newparent],
                                    [entry_new EXCEPT !.children = directory])
                    IN {Out(f2, t, "ok", None, 0)}

\* The orders directory.keys() may yield the names of a HashMap in.
Orders(keys) ==
    {s \in [1..Cardinality(keys) -> keys] :
        \A i, j \in DOMAIN s : i # j => s[i] # s[j]}

\* The for loop of readdir from index i on, with acc the entries added so
\* far: the outcomes [t: table after, reply: the entries, or "panic" where
\* the unwrap of files.lookup(&child_path) fails].
RECURSIVE readdir_loop(_, _, _, _, _, _)
readdir_loop(f, t, path, entries, i, acc) ==
    IF i >= Len(entries) THEN {[t |-> t, reply |-> acc]}
    ELSE LET entry == entries[i + 1]
             child_path == with_pushed(path, entry)
             child == FileStorage_lookup(f, child_path)
             file_type == IF child.kind = "File" THEN "RegularFile" ELSE "Directory"
         IN IF child = None THEN {[t |-> t, reply |-> "panic"]}
            ELSE UNION {readdir_loop(f, o.t, path, entries, i + 1,
                                     Append(acc, <<o.inode, 2 + i, file_type, entry>>)) :
                        o \in create_inode(t, child_path)}

\* fn readdir(ino, _fh, offset, reply): the entries are
\* <<inode, offset of the entry, type, name>>.
readdir(f, t, ino, offset) ==
    LET entry == get_entry(f, t, ino)
    IN IF offset # 0 THEN {Out(f, t, "ok", [entries |-> <<>>], 0)}
       ELSE IF entry = None THEN {Out(f, t, "ENOENT", None, 0)}
       ELSE IF entry.kind = "File" THEN {Out(f, t, "ENOTDIR", None, 0)}
       ELSE LET path == t.inode_to_file[ino]
                loops == UNION {readdir_loop(f, up.t, path, entries, 0,
                                    << <<ino, 0, "Directory", ".">>,
                                       <<up.inode, 1, "Directory", "..">> >>) :
                                <<entries, up>> \in
                                    Orders(DOMAIN entry.children) \X
                                    create_inode(t, with_popped(path))}
            IN {IF o.reply = "panic" THEN Out(f, o.t, "panic", None, 0)
                ELSE Out(f, o.t, "ok", [entries |-> o.reply], 0) : o \in loops}

\* A create that inserts an empty File over whatever the name holds; C15
\* tells it from the code's.
create_replaces(f, t, id, parent, name) ==
    LET entry == get_entry(f, t, parent)
    IN IF entry = None THEN {Out(f, t, "ENOENT", None, 0)}
       ELSE IF entry.kind = "File" THEN {Out(f, t, "ENOTDIR", None, 0)}
       ELSE LET path == t.inode_to_file[parent]
                directory == Insert(entry.children, name, File(<<>>, id))
                f2 == store(f, path, [entry EXCEPT !.children = directory])
            IN {ReplyAttrs(f2, o.t, o.inode, "created", 1) :
                   o \in create_inode(t, with_pushed(path, name))}

\* fn create(parent, name, _mode, _umask, _flags, reply); id: the identity
\* of the File it inserts, if it inserts one.
create(f, t, id, parent, name) ==
    LET entry == get_entry(f, t, parent)
    IN IF entry = None THEN {Out(f, t, "ENOENT", None, 0)}
       ELSE IF entry.kind = "File" THEN {Out(f, t, "ENOTDIR", None, 0)}
       ELSE LET path == t.inode_to_file[parent]
                vacant == name \notin DOMAIN entry.children
                \* directory.entry(name).or_insert(File(Vec::new()))
                directory == IF vacant
                             THEN Insert(entry.children, name, File(<<>>, id))
                             ELSE entry.children
                f2 == store(f, path, [entry EXCEPT !.children = directory])
            IN {ReplyAttrs(f2, o.t, o.inode, "created", IF vacant THEN 1 ELSE 0) :
                   o \in create_inode(t, with_pushed(path, name))}

\* ----------------------------------------------------------------- history
NoWatch == [kind |-> "none"]

\* The node inode resolves to in an outcome, as its identity (0: none).
Resolved(o, inode) ==
    LET entry == get_entry(o.files, o.table, inode)
    IN IF entry = None THEN 0 ELSE entry.id

\* "lookup": one (parent, name) pair is followed from a lookup that replied
\* with an entry (any such lookup may be the one) to the next forget:
\* the inode number replied first, the identity of the node it stood for,
\* and whether every later lookup of the pair replied the same number.
ObserveLookup(op, args, o) ==
    IF op = "forget" THEN {NoWatch}
    ELSE IF op = "lookup" /\ o.reply = "entry"
    THEN IF watch = NoWatch
         THEN {NoWatch,
               [kind |-> "lookup", parent |-> args[1], name |-> args[2],
                ino |-> o.value.ino, id |-> Resolved(o, o.value.ino),
                calls |-> 1, same |-> TRUE]}
         ELSE IF watch.parent = args[1] /\ watch.name = args[2]
         THEN {[watch EXCEPT !.calls = 2,
                             !.same = watch.same /\ o.value.ino = watch.ino]}
         ELSE {watch}
    ELSE {watch}

\* "release": one forget that unbound a Path is followed (any may be the
\* one): the inode number and the Path, until create_inode binds the Path
\* again.
ObserveRelease(op, args, o) ==
    LET kept == IF /\ watch # NoWatch
                   /\ watch.path \notin DOMAIN file_to_inode
                   /\ watch.path \in DOMAIN o.table.file_to_inode
                THEN NoWatch ELSE watch
    IN IF op = "forget" /\ args[1] \in DOMAIN inode_to_file
       THEN {kept, [kind |-> "release", ino |-> args[1],
                    path |-> inode_to_file[args[1]]]}
       ELSE {kept}

\* "ref": one inode number the kernel was handed (by lookup, mkdir or
\* create; any reply may be the one) is followed until it is forgotten,
\* with the identity of the node it stood for in that reply.
ObserveRef(op, args, o) ==
    IF op = "forget" /\ watch # NoWatch /\ watch.ino = args[1] THEN {NoWatch}
    ELSE IF watch = NoWatch /\ o.reply \in {"entry", "created"}
    THEN {NoWatch, [kind |-> "ref", ino |-> o.value.ino,
                    id |-> Resolved(o, o.value.ino)]}
    ELSE {watch}

\* "roundtrip": consecutive callbacks create, write, read on one inode are
\* followed: a create that replied with a file; a write that replied
\* written (fresh: it wrote at offset 0 to the inode the create just
\* replied); the read of the bytes just written, with its reply.
ObserveRoundTrip(op, args, o) ==
    IF op = "create" /\ o.reply = "created" /\ o.value.kind = "RegularFile"
    THEN [kind |-> "created", ino |-> o.value.ino]
    ELSE IF op = "write" /\ o.reply = "written"
    THEN [kind |-> "written", ino |-> args[1], offset |-> args[2],
          data |-> args[3],
          fresh |-> watch.kind = "created" /\ watch.ino = args[1] /\ args[2] = 0]
    ELSE IF op = "write" /\ watch.kind = "created" /\ watch.ino = args[1]
            /\ args[2] = 0
    THEN [kind |-> "unwritten", reply |-> o.reply]
    ELSE IF op = "read" /\ watch.kind = "written"
            /\ args = <<watch.ino, watch.offset, Len(watch.data)>>
    THEN [kind |-> "read", data |-> watch.data, fresh |-> watch.fresh,
          reply |-> o.reply,
          got |-> IF o.reply = "data" THEN o.value.data ELSE <<>>]
    ELSE NoWatch

\* "remove": an unlink or rmdir that replied ok is followed to the next
\* callback: how many nodes it took out of the tree (gone), and, where the
\* callback before it was a removal of the same (parent, name) that replied
\* ok, how many that one took out (before; -1 otherwise).
ObserveRemove(op, args, o) ==
    IF op \in {"unlink", "rmdir"} /\ o.reply = "ok"
    THEN [kind |-> "remove",
          gone |-> Cardinality(Ids(files) \ Ids(o.files)),
          before |-> IF watch.kind = "remove" /\ last.args = args
                     THEN watch.gone ELSE -1]
    ELSE NoWatch

\* "order": the names of the root directory in the order they were inserted
\* (by mkdir, create or rename), a name leaving the sequence when it is
\* removed.  A rename that replies ok inserts newname anew.
ObserveOrder(op, args, o) ==
    LET seq == IF watch.kind = "order" THEN watch.seq ELSE <<>>
        anew(n) == /\ op = "rename" /\ o.reply = "ok" /\ n = args[4]
                   /\ inode_to_file[args[3]] = root
        stays(n) == n \in DOMAIN o.files.children /\ ~anew(n)
        kept == SelectSeq(seq, stays)
        added == DOMAIN o.files.children \ {kept[i] : i \in DOMAIN kept}
    IN [kind |-> "order",
        seq |-> IF added = {} THEN kept
                ELSE Append(kept, CHOOSE n \in added : TRUE)]

\* "panic": what a handler that panicked was called with: the callback, its
\* arguments, and for a write to a File the length of the content it found
\* (-1 otherwise).
ObservePanic(op, args, o) ==
    IF o.reply = "panic"
    THEN LET e == get_entry(files, Table, args[1])
         IN [kind |-> "panic", op |-> op, args |-> args,
             len |-> IF op = "write" /\ e # None /\ e.kind = "File"
                     THEN Len(e.data) ELSE -1]
    ELSE NoWatch

\* "mark": the largest number of Paths bound at once so far (one, the root,
\* after ICFS::new).
ObserveMark(op, args, o) ==
    LET high == IF watch.kind = "mark" THEN watch.high ELSE 1
        bound == Cardinality(DOMAIN o.table.inode_to_file)
    IN [kind |-> "mark", high |-> IF bound > high THEN bound ELSE high]

Observe(kind, op, args, o) ==
    CASE kind = "lookup" -> ObserveLookup(op, args, o)
      [] kind = "release" -> ObserveRelease(op, args, o)
      [] kind = "ref" -> ObserveRef(op, args, o)
      [] kind = "roundtrip" -> {ObserveRoundTrip(op, args, o)}
      [] kind = "remove" -> {ObserveRemove(op, args, o)}
      [] kind = "order" -> {ObserveOrder(op, args, o)}
      [] kind = "panic" -> {ObservePanic(op, args, o)}
      [] kind = "mark" -> {ObserveMark(op, args, o)}
      [] OTHER -> {watch}

\* ------------------------------------------------------------------ Init
\* What last holds after a callback the specification does not record.
Quiet == [op |-> "-", args |-> <<>>, reply |-> "none", value |-> None]

\* ICFS::new(): an empty root Directory, the root path bound by create_inode
\* (which mints inode_to_file.len() + 1 = 1).  main() then inserts aaa.txt
\* and bbb.txt; unlinking both before they are looked up leads back here.
Init ==
    /\ files = Directory(EmptyMap, 1)
    /\ inode_to_file = Insert(EmptyMap, 1, root)
    /\ file_to_inode = Insert(EmptyMap, root, 1)
    /\ unused_inodes = {}
    /\ panicked = FALSE
    /\ last = Quiet
    /\ nextId = 2
    /\ watch = NoWatch

\* ------------------------------------------------------------------ Next
\* A universe: the arguments callbacks carry (inodes, names, offsets, sizes,
\* datas), the states kept (the tree at most depth levels deep, at most
\* nodes nodes inserted so far, inode numbers up to ino, contents up to len),
\* the callbacks recorded in last (rec: in full; head: name, the inode the
\* callback is against, and reply; brief: name and reply only)
\* and the observation followed (watch).
Universe(depth, nodes, ino, len, names, offsets, sizes, datas) ==
    [depth |-> depth, nodes |-> nodes, ino |-> ino, len |-> len,
     inodes |-> 1..ino, names |-> names, offsets |-> offsets,
     sizes |-> sizes, datas |-> datas, rec |-> {}, head |-> {},
     brief |-> {}, watch |-> "none"]

Within(U) ==
    /\ Height(files) <= U.depth
    /\ nextId <= U.nodes + 2
    /\ DOMAIN inode_to_file \subseteq 1..U.ino
    /\ Longest(files) <= U.len

\* fuser's session loop hands one request at a time to its handler, which
\* runs to its end: one step takes one outcome of the handler.
Call(U, op, args, outs) ==
    /\ ~panicked
    /\ \E o \in outs :
        /\ files' = o.files
        /\ inode_to_file' = o.table.inode_to_file
        /\ file_to_inode' = o.table.file_to_inode
        /\ unused_inodes' = o.table.unused_inodes
        /\ panicked' = (o.reply = "panic")
        /\ nextId' = nextId + o.made
        /\ last' = IF op \in U.rec
                   THEN [op |-> op, args |-> args, reply |-> o.reply,
                         value |-> o.value]
                   ELSE IF op \in U.head
                   THEN [op |-> op, args |-> <<args[1]>>, reply |-> o.reply,
                         value |-> None]
                   ELSE IF op \in U.brief
                   THEN [op |-> op, args |-> <<>>, reply |-> o.reply,
                         value |-> None]
                   ELSE Quiet
        /\ watch' \in Observe(U.watch, op, args, o)
    /\ Within(U)'

Lookup(U) ==
    \E parent \in U.inodes, name \in U.names :
        Call(U, "lookup", <<parent, name>>, lookup(files, Table, parent, name))
Forget(U) ==
    \E ino \in U.inodes :
        Call(U, "forget", <<ino>>, forget(files, Table, ino))
Getattr(U) ==
    \E ino \in U.inodes :
        Call(U, "getattr", <<ino>>, getattr(files, Table, ino))
Mkdir(U) ==
    \E parent \in U.inodes, name \in U.names :
        Call(U, "mkdir", <<parent, name>>,
             mkdir(files, Table, nextId, parent, name))
Unlink(U) ==
    \E parent \in U.inodes, name \in U.names :
        Call(U, "unlink", <<parent, name>>, unlink(files, Table, parent, name))
Rmdir(U) ==
    \E parent \in U.inodes, name \in U.names :
        Call(U, "rmdir", <<parent, name>>, rmdir(files, Table, parent, name))
Read(U) ==
    \E ino \in U.inodes, offset \in U.offsets, size \in U.sizes :
        Call(U, "read", <<ino, offset, size>>,
             read(files, Table, ino, offset, size))
Write(U) ==
    \E ino \in U.inodes, offset \in U.offsets, data \in U.datas :
        Call(U, "write", <<ino, offset, data>>,
             write(files, Table, ino, offset, data))
Rename(U) ==
    \E parent \in U.inodes, name \in U.names,
       newparent \in U.inodes, newname \in U.names :
        Call(U, "rename", <<parent, name, newparent, newname>>,
             rename(files, Table, parent, name, newparent, newname))
Readdir(U) ==
    \E ino \in U.inodes, offset \in U.offsets :
        Call(U, "readdir", <<ino, offset>>, readdir(files, Table, ino, offset))
Create(U) ==
    \E parent \in U.inodes, name \in U.names :
        Call(U, "create", <<parent, name>>,
             create(files, Table, nextId, parent, name))

\* Universe T: the tree and the inode table.
UT == Universe(MaxDepth, MaxNodes, MaxIno, MaxLen, {"a", "b"}, 0..MaxLen, {1},
               {<<0>>})

\* Byte sequences of length 0..len.
ByteSeqs(len) == UNION {[1..n -> 0..RWMaxByte] : n \in 0..len}

\* Universe RW: the contents of one file.
URW == Universe(RWMaxDepth, RWMaxNodes, RWMaxIno, RWMaxLen, {"a"},
                0..(RWMaxLen + 1), 0..(RWMaxLen + 1), ByteSeqs(RWMaxLen))

\* Universe W: two files.
UW == Universe(WMaxDepth, WMaxNodes, WMaxIno, WMaxLen, {"a", "b"},
               0..(WMaxLen + 1), {1}, ByteSeqs(WMaxLen))

\* Universe S: a small tree.
US == Universe(SMaxDepth, SMaxNodes, SMaxIno, SMaxLen, {"a", "b"}, 0..SMaxLen,
               {1}, {<<0>>})

Next ==
    \/ Lookup(UT) \/ Forget(UT) \/ Getattr(UT) \/ Mkdir(UT) \/ Unlink(UT)
    \/ Rmdir(UT) \/ Read(UT) \/ Write(UT) \/ Rename(UT) \/ Readdir(UT)
    \/ Create(UT)
Spec == Init /\ [][Next]_vars

\* Universe T, following one handed-out inode number.
URef == [UT EXCEPT !.watch = "ref"]
NextRef ==
    \/ Lookup(URef) \/ Forget(URef) \/ Getattr(URef) \/ Mkdir(URef)
    \/ Unlink(URef) \/ Rmdir(URef) \/ Read(URef) \/ Write(URef)
    \/ Rename(URef) \/ Readdir(URef) \/ Create(URef)
SpecRef == Init /\ [][NextRef]_vars

\* Universe T, following the lookups of one (parent, name) pair.
ULookup == [UT EXCEPT !.watch = "lookup"]
NextLookup ==
    \/ Lookup(ULookup) \/ Forget(ULookup) \/ Getattr(ULookup) \/ Mkdir(ULookup)
    \/ Unlink(ULookup) \/ Rmdir(ULookup) \/ Read(ULookup) \/ Write(ULookup)
    \/ Rename(ULookup) \/ Readdir(ULookup) \/ Create(ULookup)
SpecLookup == Init /\ [][NextLookup]_vars

\* Universe F, following one released binding.
URelease == [Universe(FMaxDepth, FMaxNodes, FMaxIno, FMaxLen, {"a", "b"},
                      0..FMaxLen, {1}, {<<0>>})
             EXCEPT !.watch = "release"]
NextRelease ==
    \/ Lookup(URelease) \/ Forget(URelease) \/ Getattr(URelease)
    \/ Mkdir(URelease) \/ Unlink(URelease) \/ Rmdir(URelease) \/ Read(URelease)
    \/ Write(URelease) \/ Rename(URelease) \/ Readdir(URelease)
    \/ Create(URelease)
SpecRelease == Init /\ [][NextRelease]_vars

\* Universe T, recording the reply of every rename.
URename == [UT EXCEPT !.brief = {"rename"}]
NextRename ==
    \/ Lookup(URename) \/ Forget(URename) \/ Getattr(URename) \/ Mkdir(URename)
    \/ Unlink(URename) \/ Rmdir(URename) \/ Read(URename) \/ Write(URename)
    \/ Rename(URename) \/ Readdir(URename) \/ Create(URename)
SpecRename == Init /\ [][NextRename]_vars

\* Universe RW, recording the reads.
URead == [URW EXCEPT !.rec = {"read"}]
NextRead ==
    \/ Lookup(URead) \/ Forget(URead) \/ Getattr(URead) \/ Mkdir(URead)
    \/ Unlink(URead) \/ Rmdir(URead) \/ Read(URead) \/ Write(URead)
    \/ Rename(URead) \/ Readdir(URead) \/ Create(URead)
SpecRead == Init /\ [][NextRead]_vars

\* Universe W, recording the writes.
UWrite == [UW EXCEPT !.rec = {"write"}]
NextWrite ==
    \/ Lookup(UWrite) \/ Forget(UWrite) \/ Getattr(UWrite) \/ Mkdir(UWrite)
    \/ Unlink(UWrite) \/ Rmdir(UWrite) \/ Read(UWrite) \/ Write(UWrite)
    \/ Rename(UWrite) \/ Readdir(UWrite) \/ Create(UWrite)
SpecWrite == Init /\ [][NextWrite]_vars

\* Universe RW, following create, write, read in a row.
URoundTrip == [URW EXCEPT !.watch = "roundtrip"]
NextRoundTrip ==
    \/ Lookup(URoundTrip) \/ Forget(URoundTrip) \/ Getattr(URoundTrip)
    \/ Mkdir(URoundTrip) \/ Unlink(URoundTrip) \/ Rmdir(URoundTrip)
    \/ Read(URoundTrip) \/ Write(URoundTrip) \/ Rename(URoundTrip)
    \/ Readdir(URoundTrip) \/ Create(URoundTrip)
SpecRoundTrip == Init /\ [][NextRoundTrip]_vars

\* ------------------------------------------------------------------ claims
\* The state as an outcome, for Resolved.
Now == [files |-> files, table |-> Table]

Errors == {"ENOENT", "ENOTDIR", "EEXIST", "EISDIR"}

\* C1: inode_to_file and file_to_inode are inverses of each other and the
\* reuse set holds no bound number, in every reachable state: a number is
\* never used, or reserved for reuse, or bound to exactly one Path, and
\* create_inode never hands out a number bound to another Path.
C1_TableConsistent ==
    /\ \A i \in DOMAIN inode_to_file :
         /\ inode_to_file[i] \in DOMAIN file_to_inode
         /\ file_to_inode[inode_to_file[i]] = i
    /\ \A q \in DOMAIN file_to_inode :
         /\ file_to_inode[q] \in DOMAIN inode_to_file
         /\ inode_to_file[file_to_inode[q]] = q
    /\ unused_inodes \cap DOMAIN inode_to_file = {}

\* C1's case: the root's number was forgotten and handed out again for
\* another Path, and some number waits for reuse.
C1_Witness ==
    /\ 1 \in DOMAIN inode_to_file
    /\ inode_to_file[1] # root
    /\ unused_inodes # {}

\* C2 (as claimed): an inode number handed out for node X, and not forgotten
\* since, resolves to X or to nothing, never to another node.
C2_NoAlias ==
    watch.kind = "ref" => Resolved(Now, watch.ino) \in {0, watch.id}

\* C3 (as claimed): an inode number handed out for node X, and not forgotten
\* since, resolves to X for as long as X is in the tree.
C3_StaysUsable ==
    (watch.kind = "ref" /\ watch.id \in Ids(files))
        => Resolved(Now, watch.ino) = watch.id

\* C4 (as claimed): the root Path is bound to inode number 1 in every
\* reachable state, and 1 is never in the reuse set.
C4_RootBound ==
    /\ root \in DOMAIN file_to_inode
    /\ file_to_inode[root] = 1
    /\ 1 \in DOMAIN inode_to_file
    /\ inode_to_file[1] = root
    /\ 1 \notin unused_inodes

\* C5 (as claimed): a rename that replies with an error leaves the store as
\* it was.
C5_RenameAtomic ==
    [][(last'.op = "rename" /\ last'.reply \in Errors) => files' = files]_vars

\* C6: two lookups of one (parent, name) pair that reply with an entry, with
\* no forget between them, reply with the same inode number, whatever else
\* is called in between.
C6_LookupStable ==
    watch.kind = "lookup" => watch.same

\* C6's case: the pair was looked up twice, and in between the node under the
\* name was replaced by another.
C6_Witness ==
    /\ watch.kind = "lookup"
    /\ watch.calls = 2
    /\ last = Quiet
    /\ Resolved(Now, watch.ino) \notin {0, watch.id}

\* C7: once inode I, bound to Path P, is forgotten, and until P is bound
\* again, inode_to_file[I] is absent or another Path and file_to_inode has no
\* entry for P, also after I is handed out again for another Path.
C7_ReleasedStaysReleased ==
    watch.kind = "release" =>
        /\ watch.path \notin DOMAIN file_to_inode
        /\ watch.ino \in DOMAIN inode_to_file
              => inode_to_file[watch.ino] # watch.path

\* C7's case: I was forgotten and is bound again, to another Path.
C7_Witness ==
    /\ watch.kind = "release"
    /\ watch.ino \in DOMAIN inode_to_file

\* C8: a read of len(D) bytes at offset o right after a write of D at o
\* that replied written replies D; and a write at offset 0 to the inode a
\* create just replied for a file replies written.
C8_RoundTrip ==
    /\ watch.kind = "read" => watch.reply = "data" /\ watch.got = watch.data
    /\ watch.kind # "unwritten"

\* C8's case: create on the name of a file that holds content, write of D at
\* offset 0 to its inode, read of len(D) bytes at 0; D is shorter than the
\* content.
C8_Witness ==
    /\ watch.kind = "read"
    /\ watch.fresh
    /\ watch.data # <<>>
    /\ \E i \in DOMAIN inode_to_file :
          LET e == get_entry(files, Table, i)
          IN e # None /\ e.kind = "File" /\ Len(e.data) > Len(watch.data)

Min(x, y) == IF x < y THEN x ELSE y

\* The bytes of content from offset on, at most size of them.
Clip(content, offset, size) ==
    LET from == Min(offset, Len(content))
        to == Min(offset + size, Len(content))
    IN [i \in 1..(to - from) |-> content[from + i]]

\* C9: read on an inode bound to a File replies the requested range clipped
\* at the end of the content (nothing, and no error, from the end on), and
\* read changes neither the store nor the inode table.
C9_ReadClips ==
    [][last'.op = "read" =>
        /\ files' = files
        /\ inode_to_file' = inode_to_file
        /\ file_to_inode' = file_to_inode
        /\ unused_inodes' = unused_inodes
        /\ LET e == get_entry(files, Table, last'.args[1])
           IN (e # None /\ e.kind = "File") =>
                 /\ last'.reply = "data"
                 /\ last'.value.data = Clip(e.data, last'.args[2], last'.args[3])]_vars

\* C9's case: a read past the end of a file that has content replied no
\* bytes.
C9_Witness ==
    /\ last.op = "read"
    /\ last.reply = "data"
    /\ last.value.data = <<>>
    /\ last.args[3] > 0
    /\ LET e == get_entry(files, Table, last.args[1])
       IN e # None /\ e.kind = "File" /\ e.data # <<>>
          /\ last.args[2] > Len(e.data)

\* Every Path of at most depth names.
Paths(names, depth) == UNION {[1..n -> names] : n \in 0..depth}

\* content with data written at offset (offset <= Len(content)).
Overwritten(content, offset, data) ==
    [i \in 1..(IF Len(content) < offset + Len(data)
               THEN offset + Len(data) ELSE Len(content)) |->
        IF i <= offset THEN content[i]
        ELSE IF i <= offset + Len(data) THEN data[i - offset]
        ELSE content[i]]

\* Two entries are the same node with the same content or the same names.
SameNode(x, y) ==
    /\ x.kind = y.kind
    /\ x # None =>
         /\ x.id = y.id
         /\ x.data = y.data
         /\ DOMAIN x.children = DOMAIN y.children

\* C10: write of D at offset o <= |C| on an inode bound to a File with
\* content C replies |D| and leaves the file with C[0..o) ++ D ++ C[o+|D|..);
\* no other node and no inode binding changes.
C10_WriteOverwrites ==
    [][LET ino == last'.args[1]
           offset == last'.args[2]
           data == last'.args[3]
           e == get_entry(files, Table, ino)
       IN (last'.op = "write" /\ e # None /\ e.kind = "File"
              /\ offset <= Len(e.data)) =>
            /\ last'.reply = "written"
            /\ last'.value.size = Len(data)
            /\ inode_to_file' = inode_to_file
            /\ file_to_inode' = file_to_inode
            /\ unused_inodes' = unused_inodes
            /\ \A q \in Paths(UW.names, UW.depth + 1) :
                 LET old == FileStorage_lookup(files, q)
                     new == FileStorage_lookup(files', q)
                 IN IF q = inode_to_file[ino]
                    THEN /\ new.kind = "File"
                         /\ new.id = old.id
                         /\ new.data = Overwritten(old.data, offset, data)
                    ELSE SameNode(old, new)]_vars

\* C10's case: one byte written over the second byte of a two-byte file,
\* the first byte (another value) kept, beside a second file with content.
C10_Witness ==
    /\ last.op = "write"
    /\ last.reply = "written"
    /\ last.args[2] = 1
    /\ Len(last.args[3]) = 1
    /\ LET e == get_entry(files, Table, last.args[1])
       IN /\ Len(e.data) = 2
          /\ e.data[2] = last.args[3][1]
          /\ e.data[1] # e.data[2]
          /\ \E n \in DOMAIN files.children :
                /\ files.children[n].kind = "File"
                /\ files.children[n].id # e.id
                /\ files.children[n].data # <<>>

\* Universe S, recording the removals and following each to the next
\* callback.
URemove == [US EXCEPT !.rec = {"unlink", "rmdir"}, !.watch = "remove"]
NextRemove ==
    \/ Lookup(URemove) \/ Forget(URemove) \/ Getattr(URemove) \/ Mkdir(URemove)
    \/ Unlink(URemove) \/ Rmdir(URemove) \/ Read(URemove) \/ Write(URemove)
    \/ Rename(URemove) \/ Readdir(URemove) \/ Create(URemove)
SpecRemove == Init /\ [][NextRemove]_vars

\* Path p is path q or lies below it.
Below(p, q) == Len(p) >= Len(q) /\ SubSeq(p, 1, Len(q)) = q

\* C11: unlink and rmdir on a parent bound to a Directory reply ok whether
\* or not the name is present; afterwards the name and everything below it
\* are absent, the parent keeps its other names and every other entry is the
\* node it was; the same removal called again right away replies ok and
\* leaves the store as it is.
C11_RemoveIdempotent ==
    [][LET parent == last'.args[1]
           name == last'.args[2]
           e == get_entry(files, Table, parent)
       IN (last'.op \in {"unlink", "rmdir"} /\ e # None /\ e.kind = "Directory") =>
            /\ last'.reply = "ok"
            /\ \A q \in Paths(URemove.names, URemove.depth + 1) :
                 LET old == FileStorage_lookup(files, q)
                     new == FileStorage_lookup(files', q)
                 IN IF Below(q, with_pushed(inode_to_file[parent], name))
                    THEN new = None
                    ELSE IF q = inode_to_file[parent]
                    THEN /\ new.kind = "Directory"
                         /\ new.id = old.id
                         /\ DOMAIN new.children = DOMAIN old.children \ {name}
                    ELSE SameNode(old, new)
            /\ (last.op \in {"unlink", "rmdir"} /\ last.reply = "ok"
                  /\ last.args = last'.args) => files' = files]_vars

\* C11's case: a removal took a Directory with a child out of the tree, and
\* the same removal called again replied ok and took nothing.
C11_Witness ==
    /\ watch.kind = "remove"
    /\ watch.before >= 2
    /\ watch.gone = 0
    /\ last.reply = "ok"

\* Universe F, recording the readdirs and following the order of insertion
\* into the root.
UReaddir == [Universe(FMaxDepth, FMaxNodes, FMaxIno, FMaxLen, {"a", "b"},
                      0..FMaxLen, {1}, {<<0>>})
             EXCEPT !.rec = {"readdir"}, !.watch = "order"]
NextReaddir ==
    \/ Lookup(UReaddir) \/ Forget(UReaddir) \/ Getattr(UReaddir)
    \/ Mkdir(UReaddir) \/ Unlink(UReaddir) \/ Rmdir(UReaddir)
    \/ Read(UReaddir) \/ Write(UReaddir) \/ Rename(UReaddir)
    \/ Readdir(UReaddir) \/ Create(UReaddir)
SpecReaddir == Init /\ [][NextReaddir]_vars

\* A readdir at offset 0 of an inode bound to a Directory replied '.', '..'
\* and then each name of the directory once, with the type of the child and
\* the inode number its Path is bound to after the call.
Enumerates ==
    LET ino == last'.args[1]
        e == get_entry(files, Table, ino)
        path == inode_to_file[ino]
        listed == last'.value.entries
    IN /\ last'.reply = "ok"
       /\ Len(listed) = 2 + Cardinality(DOMAIN e.children)
       /\ listed[1] = <<ino, 0, "Directory", ".">>
       /\ listed[2][4] = ".."
       /\ {listed[i][4] : i \in 3..Len(listed)} = DOMAIN e.children
       /\ \A i \in 3..Len(listed) :
            LET child == with_pushed(path, listed[i][4])
            IN /\ child \in DOMAIN file_to_inode'
               /\ listed[i][1] = file_to_inode'[child]
               /\ listed[i][3] = IF e.children[listed[i][4]].kind = "File"
                                 THEN "RegularFile" ELSE "Directory"

UGuard == [US EXCEPT !.head = {"read", "write", "lookup", "mkdir"}]
NextGuard ==
    \/ Lookup(UGuard) \/ Forget(UGuard) \/ Getattr(UGuard) \/ Mkdir(UGuard)
    \/ Unlink(UGuard) \/ Rmdir(UGuard) \/ Read(UGuard) \/ Write(UGuard)
    \/ Rename(UGuard) \/ Readdir(UGuard) \/ Create(UGuard)
SpecGuard == Init /\ [][NextGuard]_vars

\* The step leaves the store and the inode table as they were.
Untouched ==
    /\ files' = files
    /\ inode_to_file' = inode_to_file
    /\ file_to_inode' = file_to_inode
    /\ unused_inodes' = unused_inodes

\* C13: read and write against an inode bound to a Directory reply EISDIR,
\* lookup and mkdir against a parent bound to a File reply ENOTDIR, and in
\* each case the store, both inode maps and the reuse set stay as they were.
C13_TypeGuards ==
    [][LET e == get_entry(files, Table, last'.args[1])
       IN /\ (last'.op \in {"read", "write"} /\ e # None /\ e.kind = "Directory")
                => (last'.reply = "EISDIR" /\ Untouched)
          /\ (last'.op \in {"lookup", "mkdir"} /\ e # None /\ e.kind = "File")
                => (last'.reply = "ENOTDIR" /\ Untouched)]_vars

\* C13's case: a lookup under a File that has content replied ENOTDIR.
C13_Witness ==
    /\ last.op = "lookup"
    /\ last.reply = "ENOTDIR"
    /\ get_entry(files, Table, last.args[1]).data # <<>>

\* Universe S, recording the getattrs.
UGetattr == [US EXCEPT !.rec = {"getattr"}]
NextGetattr ==
    \/ Lookup(UGetattr) \/ Forget(UGetattr) \/ Getattr(UGetattr)
    \/ Mkdir(UGetattr) \/ Unlink(UGetattr) \/ Rmdir(UGetattr)
    \/ Read(UGetattr) \/ Write(UGetattr) \/ Rename(UGetattr)
    \/ Readdir(UGetattr) \/ Create(UGetattr)
SpecGetattr == Init /\ [][NextGetattr]_vars

\* C14 (as claimed): getattr against an inode bound to a Directory replies
\* with an error code and not with attributes.
C14_GetattrFails ==
    [][LET e == get_entry(files, Table, last'.args[1])
       IN (last'.op = "getattr" /\ e # None /\ e.kind = "Directory")
             => last'.reply \in Errors]_vars

\* C14 (amended): getattr against an inode bound to a Directory replies with
\* attributes: type Directory, size 0 and the inode number asked for; it
\* changes neither the store nor the inode table.
C14_GetattrDirectory ==
    [][LET e == get_entry(files, Table, last'.args[1])
       IN (last'.op = "getattr" /\ e # None /\ e.kind = "Directory") =>
            /\ last'.reply = "attr"
            /\ last'.value = [kind |-> "Directory", ino |-> last'.args[1],
                              size |-> 0]
            /\ Untouched]_vars

\* C14's case: getattr of a Directory other than the root, with a child,
\* replied attributes.
C14_Witness ==
    /\ last.op = "getattr"
    /\ last.reply = "attr"
    /\ last.value.kind = "Directory"
    /\ inode_to_file[last.args[1]] # root
    /\ DOMAIN get_entry(files, Table, last.args[1]).children # {}

\* Universe S, recording the creates.
UCreate == [US EXCEPT !.rec = {"create"}]
NextCreate ==
    \/ Lookup(UCreate) \/ Forget(UCreate) \/ Getattr(UCreate) \/ Mkdir(UCreate)
    \/ Unlink(UCreate) \/ Rmdir(UCreate) \/ Read(UCreate) \/ Write(UCreate)
    \/ Rename(UCreate) \/ Readdir(UCreate) \/ Create(UCreate)
SpecCreate == Init /\ [][NextCreate]_vars

\* C15: create on a parent bound to a Directory inserts an empty File where
\* the name is absent and leaves the node alone where the name is present;
\* either way the child's Path is bound afterwards, the reply carries the
\* attributes of the node at that Path, nothing else in the tree changes,
\* and the same create called again right away replies the same inode number
\* and changes nothing.
C15_CreateIdempotent ==
    [][LET parent == last'.args[1]
           name == last'.args[2]
           e == get_entry(files, Table, parent)
           child == with_pushed(inode_to_file[parent], name)
           was == FileStorage_lookup(files, child)
           is == FileStorage_lookup(files', child)
       IN (last'.op = "create" /\ e # None /\ e.kind = "Directory") =>
            /\ last'.reply = "created"
            /\ IF was = None
               THEN is.kind = "File" /\ is.data = <<>> /\ is.id \notin Ids(files)
               ELSE is = was
            /\ child \in DOMAIN file_to_inode'
            /\ inode_to_file'[file_to_inode'[child]] = child
            /\ last'.value =
                 [kind |-> IF is.kind = "File" THEN "RegularFile" ELSE "Directory",
                  ino |-> file_to_inode'[child],
                  size |-> IF is.kind = "File" THEN Len(is.data) ELSE 0]
            /\ \A q \in Paths(UCreate.names, UCreate.depth + 1) :
                 LET old == FileStorage_lookup(files, q)
                     new == FileStorage_lookup(files', q)
                 IN IF Below(q, child) THEN was # None => new = old
                    ELSE IF q = inode_to_file[parent]
                    THEN /\ new.id = old.id
                         /\ DOMAIN new.children = DOMAIN old.children \cup {name}
                    ELSE SameNode(old, new)
            /\ (last.op = "create" /\ last.reply = "created"
                  /\ last.args = last'.args)
                 => (last'.value = last.value /\ Untouched)]_vars

\* C15's case: create on the name of a File that holds content replied its
\* attributes, the content still there.
C15_Witness ==
    /\ last.op = "create"
    /\ last.reply = "created"
    /\ last.value.size > 0

\* Universe S, recording the name and reply of every callback and what a
\* handler that panicked was called with.
UReply == [US EXCEPT
             !.brief = {"lookup", "forget", "getattr", "mkdir", "unlink",
                        "rmdir", "read", "write", "rename", "readdir", "create"},
             !.watch = "panic"]
NextReply ==
    \/ Lookup(UReply) \/ Forget(UReply) \/ Getattr(UReply) \/ Mkdir(UReply)
    \/ Unlink(UReply) \/ Rmdir(UReply) \/ Read(UReply) \/ Write(UReply)
    \/ Rename(UReply) \/ Readdir(UReply) \/ Create(UReply)
SpecReply == Init /\ [][NextReply]_vars

\* What a handler can send: a success payload or an error code.
Replies == Errors \cup {"entry", "attr", "ok", "data", "written", "created"}

\* C16: every callback but forget runs to its end and sends one reply, in
\* every reachable state and for every argument; the one exception is a
\* write to a File at an offset beyond the end of its content, which panics.
\* forget sends nothing and never panics.
C16_RepliesOnce ==
    [][/\ last'.op = "forget" => (last'.reply = "none" /\ ~panicked')
       /\ last'.op \notin {"-", "forget"} =>
            IF panicked'
            THEN /\ watch'.op = "write"
                 /\ watch'.len >= 0
                 /\ watch'.args[2] > watch'.len
            ELSE last'.reply \in Replies]_vars

\* C16's case: a lookup replied an entry, through create_inode and the unwrap
\* of get_inode_attrs, after the root's number 1 was forgotten and bound
\* again to another Path.
C16_Witness ==
    /\ last.op = "lookup"
    /\ last.reply = "entry"
    /\ 1 \in DOMAIN inode_to_file
    /\ inode_to_file[1] # root

\* Universe T, following the high-water mark of bound Paths.
UMark == [UT EXCEPT !.watch = "mark"]
NextMark ==
    \/ Lookup(UMark) \/ Forget(UMark) \/ Getattr(UMark) \/ Mkdir(UMark)
    \/ Unlink(UMark) \/ Rmdir(UMark) \/ Read(UMark) \/ Write(UMark)
    \/ Rename(UMark) \/ Readdir(UMark) \/ Create(UMark)
SpecMark == Init /\ [][NextMark]_vars

\* C17: in every reachable state create_inode, for whatever Path, returns a
\* number that was neither bound nor reserved only if the reuse set is
\* empty; and after every step the bound and the reserved numbers together
\* are exactly 1..N, N the largest number of Paths bound at once so far, so
\* no number above N was ever bound.
C17_ReuseBeforeMint ==
    [][/\ \A path \in Paths(UMark.names, UMark.depth + 1) :
            \A o \in create_inode(Table, path) :
               o.inode \notin DOMAIN inode_to_file \cup unused_inodes
                  => unused_inodes = {}
       /\ DOMAIN inode_to_file' \cup unused_inodes' = 1..watch'.high]_vars

\* C17's case: three Paths were bound at once, two of the numbers were
\* forgotten, and one of those is bound again.
C17_Witness ==
    /\ watch.kind = "mark"
    /\ watch.high = 3
    /\ Cardinality(unused_inodes) = 1
    /\ Cardinality(DOMAIN inode_to_file) = 2
    /\ 1 \in DOMAIN inode_to_file
    /\ inode_to_file[1] # root

\* C18 (as claimed): readdir against an inode bound to a File replies
\* ENOTDIR and against an unbound inode ENOENT, at every offset; it replies
\* ok with no entries only for an inode bound to a Directory and an offset
\* past the end of its listing ('.', '..' and the names).
C18_ReaddirGuards ==
    [][LET ino == last'.args[1]
           offset == last'.args[2]
           e == get_entry(files, Table, ino)
       IN last'.op = "readdir" =>
            /\ e = None => last'.reply = "ENOENT"
            /\ (e # None /\ e.kind = "File") => last'.reply = "ENOTDIR"
            /\ (last'.reply = "ok" /\ last'.value.entries = <<>>) =>
                 /\ e # None
                 /\ e.kind = "Directory"
                 /\ offset >= 2 + Cardinality(DOMAIN e.children)]_vars

\* Universe S, recording the renames.
UMove == [US EXCEPT !.rec = {"rename"}]
NextMove ==
    \/ Lookup(UMove) \/ Forget(UMove) \/ Getattr(UMove) \/ Mkdir(UMove)
    \/ Unlink(UMove) \/ Rmdir(UMove) \/ Read(UMove) \/ Write(UMove)
    \/ Rename(UMove) \/ Readdir(UMove) \/ Create(UMove)
SpecMove == Init /\ [][NextMove]_vars

\* The names a readdir of inode ino at offset 0 may list after the step, one
\* set for each outcome ({"error"} where it does not reply ok).
Listed(ino) ==
    {IF o.reply = "ok"
     THEN {o.value.entries[i][4] : i \in DOMAIN o.value.entries}
     ELSE {"error"} :
     o \in readdir(files', [inode_to_file |-> inode_to_file',
                            file_to_inode |-> file_to_inode',
                            unused_inodes |-> unused_inodes'],
                   ino, 0)}

\* The rename just recorded replied ok and moved the node at (parent, name),
\* as it was, to (newparent, newname); every other entry is the node it was;
\* a readdir of the destination lists newname and a readdir of the source
\* does not list name.
Moved ==
    LET parent == last'.args[1]
        name == last'.args[2]
        newparent == last'.args[3]
        newname == last'.args[4]
        from == with_pushed(inode_to_file[parent], name)
        to == with_pushed(inode_to_file[newparent], newname)
    IN /\ last'.reply = "ok"
       /\ FileStorage_lookup(files', to) = FileStorage_lookup(files, from)
       /\ FileStorage_lookup(files', from) = None
       /\ \A q \in Paths(UMove.names, UMove.depth + 1) :
            (~Below(q, from) /\ ~Below(q, to)) =>
               LET old == FileStorage_lookup(files, q)
                   new == FileStorage_lookup(files', q)
               IN /\ new.kind = old.kind
                  /\ new # None =>
                       /\ new.id = old.id
                       /\ new.data = old.data
                       /\ DOMAIN new.children \ {name, newname}
                             = DOMAIN old.children \ {name, newname}
       /\ \A names \in Listed(newparent) : newname \in names
       /\ \A names \in Listed(parent) : name \notin names

\* C19 (as claimed): a rename whose source parent is bound to a Directory
\* that holds name and whose destination parent is bound to a Directory that
\* does not hold newname replies ok and moves exactly the one subtree.
C19_RenameMoves ==
    [][LET src == get_entry(files, Table, last'.args[1])
           dst == get_entry(files, Table, last'.args[3])
       IN (/\ last'.op = "rename"
           /\ src # None /\ src.kind = "Directory"
           /\ last'.args[2] \in DOMAIN src.children
           /\ dst # None /\ dst.kind = "Directory"
           /\ last'.args[4] \notin DOMAIN dst.children) => Moved]_vars

\* Universe RW, recording the writes.
UOob == [URW EXCEPT !.rec = {"write"}]
NextOob ==
    \/ Lookup(UOob) \/ Forget(UOob) \/ Getattr(UOob) \/ Mkdir(UOob)
    \/ Unlink(UOob) \/ Rmdir(UOob) \/ Read(UOob) \/ Write(UOob)
    \/ Rename(UOob) \/ Readdir(UOob) \/ Create(UOob)
SpecOob == Init /\ [][NextOob]_vars

\* C20: a write against an inode bound to a File panics exactly when its
\* offset is beyond the end of the content and it carries data; it panics
\* before it stores a byte, with the store and the inode table as they were
\* and no reply sent; every other write to a File replies written.
C20_OobWriteFatal ==
    [][LET e == get_entry(files, Table, last'.args[1])
           offset == last'.args[2]
           data == last'.args[3]
       IN (last'.op = "write" /\ e # None /\ e.kind = "File") =>
            /\ panicked' <=> (offset > Len(e.data) /\ data # <<>>)
            /\ panicked' => (last'.reply = "panic" /\ Untouched)
            /\ ~panicked' => last'.reply = "written"]_vars

\* C20's case: a write of two bytes or more beyond the end of a File that
\* has content panicked.
C20_Witness ==
    /\ panicked
    /\ last.op = "write"
    /\ Len(last.args[3]) >= 2
    /\ get_entry(files, Table, last.args[1]).data # <<>>

====
